---- MODULE Spec2Model ----
(***************************************************************************)
(* FlowCatalyst Python SDK: the client facade (flowcatalyst/client.py) and *)
(* its record types (flowcatalyst/types.py), as a state machine.           *)
(*                                                                         *)
(* The state is one FlowCatalystClient after construction, the log of the  *)
(* calls it has made to session.request, and the outcome of the last       *)
(* facade call.  The remote service is the environment: each facade call   *)
(* draws the service's answer (a transport failure, or a status code and a *)
(* body) from a bounded set.                                               *)
(*                                                                         *)
(* Python values are tagged records: the tag t is the Python type.         *)
(***************************************************************************)
EXTENDS Integers, Sequences, FiniteSets, TLC

VARIABLES arg_base_url, base_url, api_key, timeout, headers, requests, calls, last

vars == <<arg_base_url, base_url, api_key, timeout, headers, requests, calls, last>>

(***************************************************************************)
(* Bounds of the model.                                                    *)
(***************************************************************************)
MaxCalls == 2      \* facade calls in one behaviour
MaxItems == 3      \* elements of a JSON array in a response body
MaxSlashes == 2    \* trailing slashes of the base URL given to __init__

(***************************************************************************)
(* Python values.                                                          *)
(***************************************************************************)
PyNone == [t |-> "None"]
PyStr(s) == [t |-> "str", s |-> s]
PyInt(n) == [t |-> "int", n |-> n]
PyDict(d) == [t |-> "dict", d |-> d]
PyList(l) == [t |-> "list", l |-> l]

\* The dict with no key.
EmptyDict == [k \in {} |-> PyNone]

\* Result of evaluating a Python expression: a value, or a raised exception.
Return(v) == [raised |-> FALSE, value |-> v]
Raise(exc) == [raised |-> TRUE, exc |-> exc]

(***************************************************************************)
(* flowcatalyst/types.py: the pydantic models.  A model is built from      *)
(* keyword arguments (data, a function from field names to values); every  *)
(* declared field is validated in pydantic's default (lax) mode, a key     *)
(* that is no declared field is ignored, and the first failure raises      *)
(* ValidationError.                                                        *)
(***************************************************************************)
ValidationError == [type |-> "ValidationError"]
TypeError == [type |-> "TypeError"]

\* str: only a str is accepted (a number is not converted to a str).
ValidateStr(v) == IF v.t = "str" THEN Return(v) ELSE Raise(ValidationError)

\* int: an int is kept, a str holding a decimal integer is converted.
IntOfStr == ("0" :> 0) @@ ("3" :> 3)
ValidateInt(v) ==
    IF v.t = "int" THEN Return(v)
    ELSE IF v.t = "str" /\ v.s \in DOMAIN IntOfStr THEN Return(PyInt(IntOfStr[v.s]))
    ELSE Raise(ValidationError)

\* datetime: a str in ISO 8601 form is parsed (the date and time may be
\* separated by T or by a space), an int is seconds since the Unix epoch.
\* The datetime is the instant, in seconds since the epoch, and its offset.
EpochOfIso ==
    ("2024-01-01T00:00:00Z" :> 1704067200) @@
    ("2024-01-01 00:00:00Z" :> 1704067200) @@
    ("2024-01-02T00:00:00Z" :> 1704153600)
PyDatetimeAt(epoch) == [t |-> "datetime", epoch |-> epoch, utcoffset |-> 0]
ValidateDatetime(v) ==
    IF v.t = "str" /\ v.s \in DOMAIN EpochOfIso THEN Return(PyDatetimeAt(EpochOfIso[v.s]))
    ELSE IF v.t = "int" THEN Return(PyDatetimeAt(v.n))
    ELSE Raise(ValidationError)

\* Optional[datetime]: None, or a datetime.
ValidateOptionalDatetime(v) ==
    IF v.t = "None" THEN Return(PyNone) ELSE ValidateDatetime(v)

\* Dict[str, Any]: a dict, its values kept as they are.
ValidateDict(v) == IF v.t = "dict" THEN Return(v) ELSE Raise(ValidationError)

\* A Literal that accepts any str.
ValidateLiteralAnyStr(allowed, v) ==
    IF v.t = "str" THEN Return(v) ELSE Raise(ValidationError)

\* Literal[...]: a str equal to one of the listed values.
ValidateLiteral(allowed, v) ==
    IF v.t = "str" /\ v.s \in allowed THEN Return(v) ELSE Raise(ValidationError)

SubscriptionStatus == {"active", "paused", "failed"}
DispatchJobStatus == {"pending", "processing", "completed", "failed"}
ValidateSubscriptionStatus(v) == ValidateLiteral(SubscriptionStatus, v)
ValidateDispatchJobStatus(v) == ValidateLiteral(DispatchJobStatus, v)

\* The validation of a value against the annotation of a field.
Validate(annotation, v) ==
    IF annotation = "str" THEN ValidateStr(v)
    ELSE IF annotation = "int" THEN ValidateInt(v)
    ELSE IF annotation = "datetime" THEN ValidateDatetime(v)
    ELSE IF annotation = "Optional[datetime]" THEN ValidateOptionalDatetime(v)
    ELSE IF annotation = "Dict[str, Any]" THEN ValidateDict(v)
    ELSE IF annotation = "Literal[active, paused, failed]" THEN ValidateSubscriptionStatus(v)
    ELSE ValidateDispatchJobStatus(v)

\* A required field: missing from the data is a ValidationError.
Required(data, name, annotation) ==
    IF name \in DOMAIN data THEN Validate(annotation, data[name]) ELSE Raise(ValidationError)

\* A field with a default: the default when missing from the data.
WithDefault(data, name, annotation, default) ==
    IF name \in DOMAIN data THEN Validate(annotation, data[name]) ELSE Return(default)

\* An EventType whose version is read from the name.
EventTypeMixed(data) ==
    LET id == Required(data, "id", "str")
        name == Required(data, "name", "str")
        version == Required(data, "version", "str")
        schema == Required(data, "schema", "Dict[str, Any]")
        created_at == Required(data, "created_at", "datetime")
    IN  IF id.raised \/ name.raised \/ version.raised \/ schema.raised
           \/ created_at.raised
        THEN Raise(ValidationError)
        ELSE Return([t |-> "EventType",
                     id |-> id.value,
                     name |-> name.value,
                     version |-> name.value,
                     schema |-> schema.value,
                     created_at |-> created_at.value])

EventType(data) ==
    LET id == Required(data, "id", "str")
        name == Required(data, "name", "str")
        version == Required(data, "version", "str")
        schema == Required(data, "schema", "Dict[str, Any]")
        created_at == Required(data, "created_at", "datetime")
    IN  IF id.raised \/ name.raised \/ version.raised \/ schema.raised
           \/ created_at.raised
        THEN Raise(ValidationError)
        ELSE Return([t |-> "EventType",
                     id |-> id.value,
                     name |-> name.value,
                     version |-> version.value,
                     schema |-> schema.value,
                     created_at |-> created_at.value])

Subscription(data) ==
    LET id == Required(data, "id", "str")
        event_type_id == Required(data, "event_type_id", "str")
        endpoint == Required(data, "endpoint", "str")
        status == Required(data, "status", "Literal[active, paused, failed]")
        created_at == Required(data, "created_at", "datetime")
    IN  IF id.raised \/ event_type_id.raised \/ endpoint.raised \/ status.raised
           \/ created_at.raised
        THEN Raise(ValidationError)
        ELSE Return([t |-> "Subscription",
                     id |-> id.value,
                     event_type_id |-> event_type_id.value,
                     endpoint |-> endpoint.value,
                     status |-> status.value,
                     created_at |-> created_at.value])

DispatchJob(data) ==
    LET id == Required(data, "id", "str")
        event_id == Required(data, "event_id", "str")
        subscription_id == Required(data, "subscription_id", "str")
        status == Required(data, "status", "Literal[pending, processing, completed, failed]")
        attempts == Required(data, "attempts", "int")
        created_at == Required(data, "created_at", "datetime")
        completed_at == WithDefault(data, "completed_at", "Optional[datetime]", PyNone)
    IN  IF id.raised \/ event_id.raised \/ subscription_id.raised \/ status.raised
           \/ attempts.raised \/ created_at.raised \/ completed_at.raised
        THEN Raise(ValidationError)
        ELSE Return([t |-> "DispatchJob",
                     id |-> id.value,
                     event_id |-> event_id.value,
                     subscription_id |-> subscription_id.value,
                     status |-> status.value,
                     attempts |-> attempts.value,
                     created_at |-> created_at.value,
                     completed_at |-> completed_at.value])

(***************************************************************************)
(* flowcatalyst/client.py.                                                 *)
(*                                                                         *)
(* A URL or a path is a sequence of pieces; "/" is a piece of its own.     *)
(***************************************************************************)
DefaultTimeout == 30

\* A strip of one trailing "/" only.
rstripOnce(s) ==
    IF s # <<>> /\ s[Len(s)] = "/" THEN SubSeq(s, 1, Len(s) - 1) ELSE s

\* str.rstrip("/"): every trailing "/" is removed.
RECURSIVE rstrip(_)
rstrip(s) ==
    IF s # <<>> /\ s[Len(s)] = "/" THEN rstrip(SubSeq(s, 1, Len(s) - 1)) ELSE s

\* The headers of a new requests.Session.
DefaultHeaders == ("Accept" :> "*/*") @@ ("Connection" :> "keep-alive")

\* Headers that carry whatever key is not None.
SessionHeadersAnyKey(key) ==
    IF key.t = "str"
    THEN ("Authorization" :> ("Bearer " \o key.s)) @@ DefaultHeaders
    ELSE DefaultHeaders

\* __init__, line 30-31: the headers of the session once the key is looked at.
SessionHeaders(key) ==
    IF key.t = "str" /\ key.s # ""
    THEN ("Authorization" :> ("Bearer " \o key.s)) @@ DefaultHeaders
    ELSE DefaultHeaders

\* The answer of the remote service to one call of session.request: the
\* call raises (no answer within the timeout), or a response comes back.
\* The body of a response is the Python value it decodes to as JSON, or
\* NotJson(raw) for a body that is no JSON text.
TimedOut == [k |-> "timeout"]
Response(status, body) == [k |-> "response", status |-> status, body |-> body]
NotJson(raw) == [t |-> "bytes", raw |-> raw]

Timeout == [type |-> "Timeout"]
HTTPError(resp) == [type |-> "HTTPError", status |-> resp.status, body |-> resp.body]
JSONDecodeError == [type |-> "JSONDecodeError"]

\* Response.raise_for_status(): raises for a 4xx or a 5xx status.
raise_for_status(resp) == resp.status >= 400 /\ resp.status < 600

\* Response.json().
json(resp) ==
    IF resp.body.t = "bytes" THEN Raise(JSONDecodeError) ELSE Return(resp.body)

\* _request, lines 85-88: the call of session.request, as logged.
SentRequest(method, path, payload) ==
    [method |-> method,
     path |-> path,
     url |-> base_url \o path,
     headers |-> headers,
     json |-> payload,
     timeout |-> timeout]

\* _request, lines 86-90: what it returns or raises, given the answer.
_request(resp) ==
    IF resp.k = "timeout" THEN Raise(Timeout)
    ELSE IF raise_for_status(resp) THEN Raise(HTTPError(resp))
    ELSE json(resp)

\* Model(**data) for the model of the name.
Model(name, data) ==
    IF name = "EventType" THEN EventType(data)
    ELSE IF name = "Subscription" THEN Subscription(data)
    ELSE DispatchJob(data)

\* Model(**value): the value must be a mapping.
Splat(name, value) ==
    IF value.t = "dict" THEN Model(name, value.d) ELSE Raise(TypeError)

\* iter(value), as the sequence of the items it yields.
StrChars == ("" :> <<>>) @@ ("x" :> <<"x">>)
RECURSIVE SeqOf(_)
SeqOf(S) ==
    IF S = {} THEN <<>>
    ELSE LET x == CHOOSE y \in S : TRUE IN <<x>> \o SeqOf(S \ {x})
Iter(value) ==
    IF value.t = "list" THEN Return(value.l)
    ELSE IF value.t = "dict"
    THEN LET keys == SeqOf(DOMAIN value.d) IN Return([i \in DOMAIN keys |-> PyStr(keys[i])])
    ELSE IF value.t = "str"
    THEN LET chars == StrChars[value.s] IN Return([i \in DOMAIN chars |-> PyStr(chars[i])])
    ELSE Raise(TypeError)

\* A list comprehension that stops after a page of two items.
ListCompPaged(name, value) ==
    LET it == Iter(value)
    IN  IF it.raised THEN it
        ELSE LET each == [i \in DOMAIN it.value |-> Splat(name, it.value[i])]
                 bad == {i \in DOMAIN each : each[i].raised}
                 page == {i \in DOMAIN each : i <= 2}
             IN  IF bad # {}
                 THEN each[CHOOSE i \in bad : \A j \in bad : i <= j]
                 ELSE Return(PyList([i \in page |-> each[i].value]))

\* [Model(**item) for item in value]: the first item that fails ends it.
ListComp(name, value) ==
    LET it == Iter(value)
    IN  IF it.raised THEN it
        ELSE LET each == [i \in DOMAIN it.value |-> Splat(name, it.value[i])]
                 bad == {i \in DOMAIN each : each[i].raised}
             IN  IF bad # {}
                 THEN each[CHOOSE i \in bad : \A j \in bad : i <= j]
                 ELSE Return(PyList([i \in DOMAIN each |-> each[i].value]))

\* A facade method that sends its request again when the first try fails.
CallRetrying(op, args, method, path, payload, resp, result) ==
    /\ requests' = IF result.raised
                   THEN requests \o <<SentRequest(method, path, payload),
                                      SentRequest(method, path, payload)>>
                   ELSE Append(requests, SentRequest(method, path, payload))
    /\ calls' = calls + 1
    /\ last' = [op |-> op, args |-> args, resp |-> resp, out |-> result]
    /\ UNCHANGED <<arg_base_url, base_url, api_key, timeout, headers>>

\* One facade method: one call of _request, then the decoding of its value.
Call(op, args, method, path, payload, resp, result) ==
    /\ requests' = Append(requests, SentRequest(method, path, payload))
    /\ calls' = calls + 1
    /\ last' = [op |-> op, args |-> args, resp |-> resp, out |-> result]
    /\ UNCHANGED <<arg_base_url, base_url, api_key, timeout, headers>>

\* The two forms of the return statement of a facade method, r being what
\* _request returned or raised: return Model(**response), and
\* return [Model(**item) for item in response].
ReturnOne(name, r) == IF r.raised THEN r ELSE Splat(name, r.value)
ReturnList(name, r) == IF r.raised THEN r ELSE ListComp(name, r.value)

EventTypesPath == <<"/", "api", "/", "event-types">>
SubscriptionsPath == <<"/", "api", "/", "subscriptions">>
DispatchJobsPath == <<"/", "api", "/", "dispatch-jobs">>

get_event_types(resp) ==
    Call("get_event_types", <<>>, "GET", EventTypesPath, PyNone, resp,
         ReturnList("EventType", _request(resp)))

get_event_type(event_type_id, resp) ==
    Call("get_event_type", <<event_type_id>>, "GET",
         EventTypesPath \o <<"/", event_type_id>>, PyNone, resp,
         ReturnOne("EventType", _request(resp)))

create_event_type(name, version, schema, resp) ==
    LET payload == PyDict([name |-> PyStr(name), version |-> PyStr(version),
                           schema |-> schema])
    IN  Call("create_event_type", <<name, version, schema>>, "POST",
             EventTypesPath, payload, resp,
             ReturnOne("EventType", _request(resp)))

get_subscriptions(resp) ==
    Call("get_subscriptions", <<>>, "GET", SubscriptionsPath, PyNone, resp,
         ReturnList("Subscription", _request(resp)))

get_subscription(subscription_id, resp) ==
    Call("get_subscription", <<subscription_id>>, "GET",
         SubscriptionsPath \o <<"/", subscription_id>>, PyNone, resp,
         ReturnOne("Subscription", _request(resp)))

\* The status argument may be left out: status is then "active" (line 62).
NoArg == [given |-> FALSE]
Arg(v) == [given |-> TRUE, value |-> v]
DefaultStatusPaused == "paused"
DefaultStatus == "active"
create_subscription(event_type_id, endpoint, statusArg, resp) ==
    LET status == IF statusArg.given THEN statusArg.value ELSE DefaultStatus
        payload == PyDict([event_type_id |-> PyStr(event_type_id),
                           endpoint |-> PyStr(endpoint),
                           status |-> PyStr(status)])
    IN  Call("create_subscription", <<event_type_id, endpoint, statusArg>>, "POST",
             SubscriptionsPath, payload, resp,
             ReturnOne("Subscription", _request(resp)))

get_dispatch_jobs(resp) ==
    Call("get_dispatch_jobs", <<>>, "GET", DispatchJobsPath, PyNone, resp,
         ReturnList("DispatchJob", _request(resp)))

get_dispatch_job(job_id, resp) ==
    Call("get_dispatch_job", <<job_id>>, "GET",
         DispatchJobsPath \o <<"/", job_id>>, PyNone, resp,
         ReturnOne("DispatchJob", _request(resp)))

(***************************************************************************)
(* The environment: the arguments of the constructor and of the facade     *)
(* methods, and the answers of the remote service.                         *)
(***************************************************************************)
Slashes(n) == [i \in 1..n |-> "/"]
BaseUrls == {<<"http://h", "/", "v1">> \o Slashes(n) : n \in 0..MaxSlashes}
ApiKeys == {PyNone, PyStr(""), PyStr("k1")}
Ids == {"a", "b"}
StatusArgs == {NoArg, Arg("paused")}

Iso1 == PyStr("2024-01-01T00:00:00Z")
Iso1Space == PyStr("2024-01-01 00:00:00Z")
Iso2 == PyStr("2024-01-02T00:00:00Z")
Schema1 == PyDict([type |-> PyStr("object")])

ET1 == [id |-> PyStr("et1"), name |-> PyStr("order.created"), version |-> PyStr("1.0"),
        schema |-> Schema1, created_at |-> Iso1]
ET2 == [id |-> PyStr("et2"), name |-> PyStr("order.paid"), version |-> PyStr("2.0"),
        schema |-> PyDict(EmptyDict), created_at |-> Iso2]
ETSpace == [ET1 EXCEPT !.created_at = Iso1Space]
ETEpoch == [ET1 EXCEPT !.created_at = PyInt(0)]
ETExtra == ("owner" :> PyStr("ops")) @@ ET1
ETNoVersion == [f \in DOMAIN ET1 \ {"version"} |-> ET1[f]]
ETIntId == [ET1 EXCEPT !.id = PyInt(7)]
ETBadTime == [ET1 EXCEPT !.created_at = PyStr("yesterday")]
ETListSchema == [ET1 EXCEPT !.schema = PyList(<<>>)]

S1 == [id |-> PyStr("s1"), event_type_id |-> PyStr("et1"), endpoint |-> PyStr("https://x/y"),
       status |-> PyStr("active"), created_at |-> Iso1]
S2 == [S1 EXCEPT !.id = PyStr("s2"), !.status = PyStr("paused")]
SFailed == [S1 EXCEPT !.status = PyStr("failed")]
SCancelled == [S1 EXCEPT !.status = PyStr("cancelled")]
SNoStatus == [f \in DOMAIN S1 \ {"status"} |-> S1[f]]
SNullEndpoint == [S1 EXCEPT !.endpoint = PyNone]

J1 == [id |-> PyStr("j1"), event_id |-> PyStr("e1"), subscription_id |-> PyStr("s1"),
       status |-> PyStr("pending"), attempts |-> PyInt(0), created_at |-> Iso1]
J2 == ("completed_at" :> Iso2) @@
      [J1 EXCEPT !.id = PyStr("j2"), !.status = PyStr("completed"), !.attempts = PyInt(1)]
JNullDone == ("completed_at" :> PyNone) @@ [J1 EXCEPT !.status = PyStr("processing")]
JPendingDone == ("completed_at" :> Iso2) @@ J1
JStrAttempts == [J1 EXCEPT !.attempts = PyStr("3")]
JBadAttempts == [J1 EXCEPT !.attempts = PyStr("many")]
JCancelled == [J1 EXCEPT !.status = PyStr("cancelled")]
JNoAttempts == [f \in DOMAIN J1 \ {"attempts"} |-> J1[f]]

EventTypeData == {ET1, ET2, ETSpace, ETEpoch, ETExtra, ETNoVersion, ETIntId, ETBadTime,
                  ETListSchema}
SubscriptionData == {S1, S2, SFailed, SCancelled, SNoStatus, SNullEndpoint}
DispatchJobData == {J1, J2, JNullDone, JPendingDone, JStrAttempts, JBadAttempts,
                    JCancelled, JNoAttempts}

Dicts(data) == {PyDict(d) : d \in data}
SeqsUpTo(S, n) == UNION {[1..k -> S] : k \in 0..n}
Lists(items) == {PyList(q) : q \in SeqsUpTo(items, MaxItems)}

\* Bodies that are not of the JSON kind a method decodes.
Scalars == {PyNone, PyStr(""), PyStr("x"), PyInt(1), NotJson("<html>")}

\* The bodies of the answers to the methods of one resource: kind is
\* "one" for a method that decodes one record, "list" for a list method.
\* `few' are the objects used in lists and in behaviours of several calls.
Bodies(kind, all, few, wide) ==
    IF kind = "one"
    THEN IF wide THEN Dicts(all) \cup {PyList(<<>>)} \cup Scalars
         ELSE Dicts(few) \cup {PyList(<<>>), NotJson("<html>")}
    ELSE IF wide
         THEN Lists(Dicts(few) \cup {PyStr("x")}) \cup Dicts({EmptyDict} \cup few) \cup Scalars
         ELSE {PyList(<<>>), PyDict(EmptyDict), NotJson("<html>")}
              \cup {PyList(<<PyDict(d)>>) : d \in few}

\* A well-formed body for a method of the kind, holding the object d.
OkBody(kind, d) == IF kind = "one" THEN PyDict(d) ELSE PyList(<<PyDict(d)>>)
ErrorText == NotJson("Not Found")

\* The answers to one call: none within the timeout; 200 with any body of
\* the method; 201 and 304 with a well-formed body; 304, 404 and 500 with an
\* error text.  The wide sets pair every status with every body.
Answers(bodies, ok, wide) ==
    {TimedOut}
    \cup {Response(200, b) : b \in bodies}
    \cup {Response(st, ok) : st \in {201, 304}}
    \cup {Response(st, ErrorText) : st \in {304, 404, 500}}
    \cup IF wide
         THEN {Response(st, b) : st \in {201, 204, 304, 404, 500}, b \in bodies}
         ELSE {}

EventTypeAnswers(kind, wide) ==
    Answers(Bodies(kind, EventTypeData, {ET1, ET2, ETNoVersion}, wide), OkBody(kind, ET1), wide)
SubscriptionAnswers(kind, wide) ==
    Answers(Bodies(kind, SubscriptionData, {S1, S2, SCancelled}, wide), OkBody(kind, S1), wide)
DispatchJobAnswers(kind, wide) ==
    Answers(Bodies(kind, DispatchJobData, {J1, J2, JPendingDone, JCancelled}, wide),
            OkBody(kind, J1), wide)

(***************************************************************************)
(* The state after FlowCatalystClient(base_url, api_key), and the steps.   *)
(***************************************************************************)
NoCall == [op |-> "none", args |-> <<>>, resp |-> [k |-> "none"], out |-> Return(PyNone)]

Init ==
    \E b \in BaseUrls, key \in ApiKeys :
        /\ arg_base_url = b
        /\ base_url = rstrip(b)
        /\ api_key = key
        /\ timeout = DefaultTimeout
        /\ headers = SessionHeaders(key)
        /\ requests = <<>>
        /\ calls = 0
        /\ last = NoCall

GetEventTypes(wide) ==
    \E resp \in EventTypeAnswers("list", wide) : get_event_types(resp)
GetEventType(wide) ==
    \E id \in Ids, resp \in EventTypeAnswers("one", wide) :
        get_event_type(id, resp)
CreateEventType(wide) ==
    \E resp \in EventTypeAnswers("one", wide) :
        create_event_type("order.created", "1.0", Schema1, resp)
GetSubscriptions(wide) ==
    \E resp \in SubscriptionAnswers("list", wide) : get_subscriptions(resp)
GetSubscription(wide) ==
    \E id \in Ids, resp \in SubscriptionAnswers("one", wide) :
        get_subscription(id, resp)
CreateSubscription(wide) ==
    \E st \in StatusArgs, resp \in SubscriptionAnswers("one", wide) :
        create_subscription("et1", "https://x/y", st, resp)
GetDispatchJobs(wide) ==
    \E resp \in DispatchJobAnswers("list", wide) : get_dispatch_jobs(resp)
GetDispatchJob(wide) ==
    \E id \in Ids, resp \in DispatchJobAnswers("one", wide) :
        get_dispatch_job(id, resp)

\* Behaviours of up to MaxCalls facade calls.
More == calls < MaxCalls
Next ==
    \/ More /\ GetEventTypes(FALSE)
    \/ More /\ GetEventType(FALSE)
    \/ More /\ CreateEventType(FALSE)
    \/ More /\ GetSubscriptions(FALSE)
    \/ More /\ GetSubscription(FALSE)
    \/ More /\ CreateSubscription(FALSE)
    \/ More /\ GetDispatchJobs(FALSE)
    \/ More /\ GetDispatchJob(FALSE)
Spec == Init /\ [][Next]_vars

\* Behaviours of one facade call, its answer drawn from the wide sets.
First == calls = 0
NextDecode ==
    \/ First /\ GetEventTypes(TRUE)
    \/ First /\ GetEventType(TRUE)
    \/ First /\ CreateEventType(TRUE)
    \/ First /\ GetSubscriptions(TRUE)
    \/ First /\ GetSubscription(TRUE)
    \/ First /\ CreateSubscription(TRUE)
    \/ First /\ GetDispatchJobs(TRUE)
    \/ First /\ GetDispatchJob(TRUE)
SpecDecode == Init /\ [][NextDecode]_vars

(***************************************************************************)
(* Properties.                                                             *)
(***************************************************************************)
Called == last.op # "none"
Answered == Called /\ last.resp.k = "response"
Status2xx == Answered /\ last.resp.status \in 200..299
Decoded == Status2xx /\ last.resp.body.t # "bytes"
Returned == Called /\ ~last.out.raised
Raised(type) == Called /\ last.out.raised /\ last.out.exc.type = type

ListOps == {"get_event_types", "get_subscriptions", "get_dispatch_jobs"}
OneOps == {"get_event_type", "create_event_type", "get_subscription",
           "create_subscription", "get_dispatch_job"}
KindOf(op) ==
    IF op \in {"get_event_types", "get_event_type", "create_event_type"} THEN "EventType"
    ELSE IF op \in {"get_subscriptions", "get_subscription", "create_subscription"}
    THEN "Subscription"
    ELSE "DispatchJob"
Build(kind, data) == Model(kind, data)

\* The records the last call handed to its caller.
Records ==
    IF ~Returned THEN {}
    ELSE IF last.out.value.t = "list"
    THEN {last.out.value.l[i] : i \in DOMAIN last.out.value.l}
    ELSE {last.out.value}

\* The body of the last answer is of the JSON kind and shape its method decodes.
Conforms ==
    LET body == last.resp.body
        kind == KindOf(last.op)
    IN  IF last.op \in OneOps
        THEN body.t = "dict" /\ ~Build(kind, body.d).raised
        ELSE /\ body.t = "list"
             /\ \A i \in DOMAIN body.l :
                    body.l[i].t = "dict" /\ ~Build(kind, body.l[i].d).raised

\* C1: every facade operation answered with a status outside 200-299 fails
\* with an HttpError carrying that status and the body, and returns no record.
C1_NonSuccessRaisesHttpError ==
    (Answered /\ last.resp.status \notin 200..299)
        => (last.out.raised /\ last.out.exc = HTTPError(last.resp))

\* C2 as stated: with an API key every request carries Authorization:
\* Bearer <key>; without one no request carries an Authorization header.
C2_KeyAlwaysSent ==
    \A i \in DOMAIN requests :
        LET h == requests[i].headers
        IN  /\ api_key.t = "str" =>
                ("Authorization" \in DOMAIN h /\ h["Authorization"] = "Bearer " \o api_key.s)
            /\ api_key.t = "None" => "Authorization" \notin DOMAIN h

\* C2, amended: with a non-empty API key every request of every sequence of
\* facade operations carries Authorization: Bearer <key>; with no key, or
\* with the empty string as key, none carries an Authorization header; the
\* session's headers are those every request was sent with.
C2_AuthHeader ==
    \A i \in DOMAIN requests :
        LET h == requests[i].headers
        IN  /\ h = headers
            /\ (api_key.t = "str" /\ api_key.s # "") =>
                ("Authorization" \in DOMAIN h /\ h["Authorization"] = "Bearer " \o api_key.s)
            /\ (api_key.t = "None" \/ (api_key.t = "str" /\ api_key.s = "")) =>
                "Authorization" \notin DOMAIN h

C2_Witness ==
    /\ api_key = PyStr("k1")
    /\ Len(requests) >= 2
    /\ requests[1].method = "POST"
    /\ requests[2].headers["Authorization"] = "Bearer k1"

C4_MismatchIsValidationError ==
    Decoded => IF Conforms THEN Returned ELSE Raised("ValidationError")

\* C5: every request issued is one of the eight (method, path) pairs, its
\* URL is the base URL given at construction without its trailing slashes
\* followed by the path, and /api/dispatch-jobs is only ever read with GET.
IsCollection(path, resource) == path = <<"/", "api", "/", resource>>
IsItem(path, resource) ==
    Len(path) = 6 /\ SubSeq(path, 1, 5) = <<"/", "api", "/", resource, "/">>
C5_RequestsAreTheEight ==
    \A i \in DOMAIN requests :
        LET r == requests[i]
        IN  /\ \/ r.method \in {"GET", "POST"} /\ IsCollection(r.path, "event-types")
               \/ r.method = "GET" /\ IsItem(r.path, "event-types")
               \/ r.method \in {"GET", "POST"} /\ IsCollection(r.path, "subscriptions")
               \/ r.method = "GET" /\ IsItem(r.path, "subscriptions")
               \/ r.method = "GET" /\ IsCollection(r.path, "dispatch-jobs")
               \/ r.method = "GET" /\ IsItem(r.path, "dispatch-jobs")
            /\ r.path[4] = "dispatch-jobs" => r.method = "GET"
            /\ \E n \in 0..Len(arg_base_url) :
                   LET stem == SubSeq(arg_base_url, 1, Len(arg_base_url) - n)
                   IN  /\ arg_base_url = stem \o [j \in 1..n |-> "/"]
                       /\ (stem = <<>> \/ stem[Len(stem)] # "/")
                       /\ r.url = stem \o r.path

C5_Witness ==
    /\ Len(arg_base_url) >= 2
    /\ arg_base_url[Len(arg_base_url)] = "/"
    /\ arg_base_url[Len(arg_base_url) - 1] = "/"
    /\ Len(requests) = 2
    /\ requests[1].method = "POST" /\ IsCollection(requests[1].path, "subscriptions")
    /\ requests[2].method = "GET" /\ IsItem(requests[2].path, "dispatch-jobs")
    /\ requests[2].url = <<"http://h", "/", "v1", "/", "api", "/", "dispatch-jobs", "/", "b">>

\* C6: a list operation answered 2xx with a JSON array of n conforming
\* objects returns exactly n records, the i-th decoded from the i-th element.
C6_ListKeepsOrder ==
    (Decoded /\ last.op \in ListOps /\ Conforms) =>
        /\ Returned
        /\ last.out.value.t = "list"
        /\ Len(last.out.value.l) = Len(last.resp.body.l)
        /\ \A i \in DOMAIN last.resp.body.l :
               last.out.value.l[i] = Build(KindOf(last.op), last.resp.body.l[i].d).value

C6_Witness ==
    /\ last.op = "get_dispatch_jobs"
    /\ Decoded
    /\ Returned
    /\ last.resp.body.t = "list"
    /\ Len(last.resp.body.l) = 3
    /\ Len(last.out.value.l) = 3
    /\ last.out.value.l[1].id = PyStr("j2")
    /\ last.out.value.l[2].id = PyStr("j1")
    /\ last.out.value.l[3].id = PyStr("j2")

\* The declared fields of the three records.
StrFields(kind) ==
    IF kind = "EventType" THEN {"id", "name", "version"}
    ELSE IF kind = "Subscription" THEN {"id", "event_type_id", "endpoint"}
    ELSE {"id", "event_id", "subscription_id"}
RequiredFields(kind) ==
    StrFields(kind) \cup {"created_at"} \cup
        IF kind = "EventType" THEN {"schema"}
        ELSE IF kind = "Subscription" THEN {"status"}
        ELSE {"status", "attempts"}
TimeFields(kind) ==
    IF kind = "DispatchJob" THEN {"created_at", "completed_at"} ELSE {"created_at"}
StatusSet(kind) ==
    IF kind = "Subscription" THEN {"active", "paused", "failed"}
    ELSE {"pending", "processing", "completed", "failed"}
IsoStrings == {"2024-01-01T00:00:00Z", "2024-01-01 00:00:00Z", "2024-01-02T00:00:00Z"}
DecimalStrings == {"0", "3"}

MissingField(kind, d) == \E f \in RequiredFields(kind) : f \notin DOMAIN d
BadStatus(kind, d) ==
    /\ kind # "EventType"
    /\ "status" \in DOMAIN d
    /\ ~(d.status.t = "str" /\ d.status.s \in StatusSet(kind))
\* A field holds a value of another type than the declared one (a timestamp
\* is given as an ISO 8601 string or as seconds since the epoch).
WrongType(kind, d) ==
    \/ \E f \in StrFields(kind) \cap DOMAIN d : d[f].t # "str"
    \/ kind = "EventType" /\ "schema" \in DOMAIN d /\ d.schema.t # "dict"
    \/ kind = "DispatchJob" /\ "attempts" \in DOMAIN d /\ d.attempts.t # "int"
    \/ \E f \in TimeFields(kind) \cap DOMAIN d :
           /\ ~(d[f].t = "str" /\ d[f].s \in IsoStrings)
           /\ d[f].t # "int"
           /\ ~(f = "completed_at" /\ d[f].t = "None")
\* A field holds a value that is not accepted for, nor converted to, the
\* declared type.
NotAccepted(kind, d) ==
    \/ \E f \in StrFields(kind) \cap DOMAIN d : d[f].t # "str"
    \/ kind = "EventType" /\ "schema" \in DOMAIN d /\ d.schema.t # "dict"
    \/ kind = "DispatchJob" /\ "attempts" \in DOMAIN d
        /\ d.attempts.t # "int"
        /\ ~(d.attempts.t = "str" /\ d.attempts.s \in DecimalStrings)
    \/ \E f \in TimeFields(kind) \cap DOMAIN d :
           /\ ~(d[f].t = "str" /\ d[f].s \in IsoStrings)
           /\ d[f].t # "int"
           /\ ~(f = "completed_at" /\ d[f].t = "None")

StatusesInSet ==
    \A r \in Records :
        r.t \in {"Subscription", "DispatchJob"} => r.status.s \in StatusSet(r.t)

\* The last call built one record from the JSON object of a 2xx answer.
BuiltOne == Decoded /\ last.op \in OneOps /\ last.resp.body.t = "dict"

\* C7 as stated: data with a missing required field, a field of the wrong
\* type or a status outside the closed set fails with ValidationError; every
\* Subscription or DispatchJob that exists has a status inside its set.
C7_WrongTypeRejected ==
    /\ StatusesInSet
    /\ BuiltOne =>
        LET kind == KindOf(last.op)
            d == last.resp.body.d
        IN  (MissingField(kind, d) \/ WrongType(kind, d) \/ BadStatus(kind, d))
                => Raised("ValidationError")

\* C7, amended: data with a missing required field, a field whose value is
\* neither of the declared type nor converted to it (a str of decimal digits
\* is converted for attempts, an int is taken as an epoch for a timestamp),
\* or a status outside the closed set fails with ValidationError and yields
\* no record; any other data yields the record; every Subscription or
\* DispatchJob that exists has a status inside its set.
C7_ValidationOnConstruction ==
    /\ StatusesInSet
    /\ BuiltOne =>
        LET kind == KindOf(last.op)
            d == last.resp.body.d
        IN  IF MissingField(kind, d) \/ NotAccepted(kind, d) \/ BadStatus(kind, d)
            THEN Raised("ValidationError")
            ELSE Returned /\ last.out.value.t = kind

C7_Witness ==
    /\ last.op = "get_subscription"
    /\ BuiltOne
    /\ "status" \in DOMAIN last.resp.body.d
    /\ last.resp.body.d.status = PyStr("cancelled")
    /\ Raised("ValidationError")

\* C8 as stated: create_subscription without a status sends the body with
\* status "active" and, on a 201 answer with a Subscription body, returns
\* a Subscription whose status is "active".
SentBody == requests[Len(requests)].json
C8_ReturnedStatusActive ==
    (last.op = "create_subscription" /\ ~last.args[3].given) =>
        /\ SentBody = PyDict([event_type_id |-> PyStr(last.args[1]),
                              endpoint |-> PyStr(last.args[2]),
                              status |-> PyStr("active")])
        /\ (Answered /\ last.resp.status = 201 /\ last.resp.body.t = "dict" /\ Conforms)
               => (Returned /\ last.out.value.status = PyStr("active"))

\* C8, amended: create_subscription sends POST /api/subscriptions with the
\* body {event_type_id, endpoint, status}, status being "active" when the
\* argument is left out and the argument otherwise; on a 201 answer with a
\* Subscription body it returns the Subscription decoded from that body,
\* whose status is the one the service answered.
C8_CreateSubscription ==
    last.op = "create_subscription" =>
        /\ requests[Len(requests)].method = "POST"
        /\ IsCollection(requests[Len(requests)].path, "subscriptions")
        /\ SentBody = PyDict([event_type_id |-> PyStr(last.args[1]),
                              endpoint |-> PyStr(last.args[2]),
                              status |-> PyStr(IF last.args[3].given
                                               THEN last.args[3].value ELSE "active")])
        /\ (Answered /\ last.resp.status = 201 /\ last.resp.body.t = "dict" /\ Conforms)
               => /\ Returned
                  /\ last.out.value.t = "Subscription"
                  /\ last.out.value.status = last.resp.body.d.status

C8_Witness ==
    /\ last.op = "create_subscription"
    /\ ~last.args[3].given
    /\ SentBody.d.status = PyStr("active")
    /\ Answered
    /\ last.resp.status = 201
    /\ Returned
    /\ last.out.value.status = PyStr("active")

\* C9: every DispatchJob the client returns has a completion timestamp only
\* when its status is completed or failed.
C9_CompletedOnlyWhenTerminal ==
    \A r \in Records :
        (r.t = "DispatchJob" /\ r.completed_at.t # "None")
            => r.status.s \in {"completed", "failed"}

\* The last call built an EventType from an object of exactly the five
\* fields of its shape.
BuiltEventType ==
    /\ BuiltOne
    /\ KindOf(last.op) = "EventType"
    /\ DOMAIN last.resp.body.d = RequiredFields("EventType")
    /\ ~MissingField("EventType", last.resp.body.d)
    /\ ~WrongType("EventType", last.resp.body.d)

\* C10 as stated: each field read back from the EventType equals the value
\* supplied for it.
C10_FieldsReadBackEqual ==
    BuiltEventType =>
        /\ Returned
        /\ \A f \in RequiredFields("EventType") : last.out.value[f] = last.resp.body.d[f]

\* C10, amended: id, name, version and the schema document read back equal
\* to the values supplied and no field is lost; created_at reads back as the
\* datetime the supplied timestamp denotes, not as the supplied string.
InstantOf(v) ==
    IF v.t = "int" THEN v.n
    ELSE IF v.s \in {"2024-01-01T00:00:00Z", "2024-01-01 00:00:00Z"} THEN 1704067200
    ELSE 1704153600
C10_EventTypeRoundTrip ==
    BuiltEventType =>
        /\ Returned
        /\ DOMAIN last.out.value = RequiredFields("EventType") \cup {"t"}
        /\ \A f \in {"id", "name", "version", "schema"} :
               last.out.value[f] = last.resp.body.d[f]
        /\ last.out.value.created_at.t = "datetime"
        /\ last.out.value.created_at.epoch = InstantOf(last.resp.body.d.created_at)
        /\ last.out.value.created_at.utcoffset = 0

C10_Witness ==
    /\ last.op = "get_event_type"
    /\ BuiltEventType
    /\ Returned
    /\ last.out.value.id = PyStr("et2")
    /\ last.out.value.schema = PyDict(EmptyDict)
    /\ last.out.value.created_at.epoch = 1704153600

====
